---- MODULE Spec2Model ----
(***************************************************************************)
(* Graphormer (src/graphormer.py): construction, reset_parameters and the  *)
(* forward pass of the structural attention bias, together with the shape  *)
(* bookkeeping of MultiHeadAttention.forward.                              *)
(*                                                                         *)
(* Tensors are functions over 0-based index tuples.  Real numbers are      *)
(* exact: weights and the baseline bias are integers, the raw structural   *)
(* inputs are rationals [n |-> numerator, d |-> denominator].              *)
(***************************************************************************)
EXTENDS Integers, Sequences, FiniteSets, TLC

VARIABLES model, data, ret, saved, mha

vars == <<model, data, ret, saved, mha>>

----------------------------------------------------------------------------
(* Bounds of the model.                                                    *)

NGraph == 1
NNode == 2
NumNodeFeat == 1
MaxHeads == 2
AttSize == 1
TableSeeds == 1
DataSeeds == 2
ScoreDen == 4
MaxLayers == 1
MaxHiddenCtor == 4
MaxBatch == 2
MaxSeq == 2

(* Program constants.                                                      *)

SpdRows == 40
SpdMax == 39
DegRows == 64
DegMax == 63
JacScale == 30
AaScale == 10

----------------------------------------------------------------------------
(* Index sets.                                                             *)

Graphs == 0 .. NGraph - 1
Nodes == 0 .. NNode - 1
Tokens == 0 .. NNode
Feats == 0 .. NumNodeFeat - 1
Range(n) == 0 .. n - 1

Pick(seq, k) == seq[(k % Len(seq)) + 1]

(* Exact rationals for the raw structural inputs.                          *)
Rat(n, d) == [n |-> n, d |-> d]

\* x * k for a tensor element x
Mul(x, k) == Rat(x.n * k, x.d)

ClampNoMin(x, lo, hi) ==
    IF x.n > hi * x.d THEN Rat(hi, 1) ELSE x

\* torch.clamp(x, min=lo, max=hi) on one element
Clamp(x, lo, hi) ==
    IF x.n < lo * x.d THEN Rat(lo, 1)
    ELSE IF x.n > hi * x.d THEN Rat(hi, 1)
    ELSE x

\* Tensor.long() on one element: truncation toward zero
Long(x) ==
    IF x.n >= 0 THEN x.n \div x.d ELSE -((-x.n) \div x.d)

----------------------------------------------------------------------------
(* Parameters.  nn.Embedding and nn.Linear draw their weights at random;   *)
(* a draw is one of a small family of integer tables.  A table with        *)
(* padding_idx=0 has a zero row 0.                                         *)

Entry(salt, seed, b, h) == ((seed * (salt + 3 * b + 5 * h)) % 7) - 3

\* nn.Embedding(rows, dim, padding_idx=0) after reset_parameters
EmbeddingPad(rows, dim, salt, seed) ==
    [b \in Range(rows) |->
        [h \in Range(dim) |-> IF b = 0 \/ seed = 0 THEN 0 ELSE Entry(salt, seed, b, h)]]

\* nn.Embedding(1, dim) without padding row
EmbeddingOne(dim, salt, seed) ==
    [b \in {0} |-> [h \in Range(dim) |-> Entry(salt, seed, b, h)]]

\* nn.Linear(in, out): weight[out][in] and bias[out]
Linear(nin, nout, salt, seed) ==
    [weight |-> [k \in Range(nout) |-> [f \in Range(nin) |-> Entry(salt, seed, k, f)]],
     bias |-> [k \in Range(nout) |-> Entry(salt + 1, seed, k, 0)]]

OptionalEncoders == {"num_shortest_path_encoder", "undir_jac_encoder", "undir_aa_encoder"}

\* One random draw of the weights: a seed, and possibly one optional
\* bias table whose weights all came out zero.
ParamDraws == [seed : 1 .. TableSeeds, zero : OptionalEncoders \cup {"none"}]

\* The draws in which no table came out zero
PlainDraws == {draw \in ParamDraws : draw.zero = "none"}

SeedOf(draw, name) == IF draw.zero = name THEN 0 ELSE draw.seed

Flags == [use_num_spd : BOOLEAN, use_cnb_jac : BOOLEAN,
          use_cnb_aa : BOOLEAN, use_degree : BOOLEAN]

Rates == [dropout_rate : {0, 1}, intput_dropout_rate : {0, 1},
          attention_dropout_rate : {0, 1}]

NoRates == [dropout_rate |-> 0, intput_dropout_rate |-> 0, attention_dropout_rate |-> 0]

\* The embedding tables allocated for a toggle configuration
EncoderNames(flags) ==
    {"len_shortest_path_encoder"}
    \cup (IF flags.use_num_spd THEN {"num_shortest_path_encoder"} ELSE {})
    \cup (IF flags.use_cnb_jac THEN {"undir_jac_encoder"} ELSE {})
    \cup (IF flags.use_cnb_aa THEN {"undir_aa_encoder"} ELSE {})
    \cup (IF flags.use_degree THEN {"in_degree_encoder", "out_degree_encoder"} ELSE {})

NewEncoder(name, num_heads, hidden_dim, draw) ==
    CASE name = "len_shortest_path_encoder" ->
            EmbeddingPad(SpdRows, num_heads, 1, SeedOf(draw, name))
      [] name = "num_shortest_path_encoder" ->
            EmbeddingPad(SpdRows, num_heads, 2, SeedOf(draw, name))
      [] name = "undir_jac_encoder" ->
            EmbeddingPad(SpdRows, num_heads, 3, SeedOf(draw, name))
      [] name = "undir_aa_encoder" ->
            EmbeddingPad(SpdRows, num_heads, 4, SeedOf(draw, name))
      [] name = "in_degree_encoder" ->
            EmbeddingPad(DegRows, hidden_dim, 5, SeedOf(draw, name))
      [] name = "out_degree_encoder" ->
            EmbeddingPad(DegRows, hidden_dim, 6, SeedOf(draw, name))

\* MultiHeadAttention.__init__: att_size and the four projections
MultiHeadAttention_init(hidden_size, num_heads) ==
    LET att_size == hidden_size \div num_heads
    IN  IF att_size = 0
        THEN [status |-> "ZeroDivisionError"]
        ELSE [status |-> "constructed",
              num_heads |-> num_heads,
              att_size |-> att_size,
              in_features |-> hidden_size,
              qkv_features |-> num_heads * att_size,
              out_in_features |-> num_heads * att_size,
              out_features |-> hidden_size]

\* EncoderLayer.__init__
EncoderLayer_init(hidden_size, num_heads, seed) ==
    LET att == MultiHeadAttention_init(hidden_size, num_heads)
    IN  IF att.status # "constructed"
        THEN [status |-> att.status]
        ELSE [status |-> "constructed", self_attention |-> att, seed |-> seed]

\* Graphormer.__init__
Graphormer_init(n_layers, num_heads, hidden_dim, flags, rates, draw) ==
    LET layer == EncoderLayer_init(hidden_dim, num_heads, draw.seed)
    IN  IF n_layers > 0 /\ layer.status # "constructed"
        THEN [status |-> layer.status, num_heads |-> num_heads, hidden_dim |-> hidden_dim]
        ELSE [status |-> "constructed",
              num_heads |-> num_heads,
              hidden_dim |-> hidden_dim,
              atom_encoder |-> Linear(NumNodeFeat, hidden_dim, 7, draw.seed),
              encoders |-> [name \in EncoderNames(flags) |->
                               NewEncoder(name, num_heads, hidden_dim, draw)],
              rates |-> rates,
              layers |-> [l \in 1 .. n_layers |-> layer],
              graph_token |-> EmbeddingOne(hidden_dim, 8, draw.seed),
              graph_token_virtual_distance |-> EmbeddingOne(num_heads, 9, draw.seed),
              use_num_spd |-> flags.use_num_spd,
              use_cnb_jac |-> flags.use_cnb_jac,
              use_cnb_aa |-> flags.use_cnb_aa,
              use_degree |-> flags.use_degree,
              training |-> TRUE]

NoModel == [status |-> "unconstructed"]

----------------------------------------------------------------------------
(* Batches.  A batch is a function from the names of the fields it holds   *)
(* to tensors; a field that was not collated is not in its domain.         *)

BiasVals == <<0, -1000, 3, -2, 7, 1, -5, 4, 2, 6, -4>>
LenVals == <<-1, 40, 1, 39, 0, 1000, 2, 5>>
NspVals == <<3, 41, -2, 0, 1, 39>>
JacNums == <<-1, 400, 1, 5, 0, 2, 3, 7>>
AaNums == <<15, 16, -3, 0, 1, 17, 2>>
DegVals == <<-1, 64, 5, 200, 0, 63, 1>>
XVals == <<1, -2, 0, 3>>

MandatoryFields == {"x", "edge_index", "attn_bias", "len_shortest_path"}
OptionalFields == {"num_shortest_path", "undir_jac", "undir_aa", "in_degree", "out_degree"}

DegreeFields == {"in_degree", "out_degree"}

\* What a collated batch may hold besides the mandatory fields
FieldSets == {OptionalFields, {}, DegreeFields, OptionalFields \ DegreeFields}

PairCell(g, i, j) == (g * NNode + i) * NNode + j

Batch(seed, optional) ==
    [name \in MandatoryFields \cup optional |->
        CASE name = "x" ->
                [p \in Graphs \X Nodes \X Feats |->
                    Pick(XVals, seed + (p[1] * NNode + p[2]) * NumNodeFeat + p[3])]
          [] name = "edge_index" -> <<>>
          [] name = "attn_bias" ->
                [p \in Graphs \X Tokens \X Tokens |->
                    Pick(BiasVals, 5 * seed + (p[1] * (NNode + 1) + p[2]) * (NNode + 1) + p[3])]
          [] name = "len_shortest_path" ->
                [p \in Graphs \X Nodes \X Nodes |->
                    Rat(Pick(LenVals, 3 * seed + PairCell(p[1], p[2], p[3])), 1)]
          [] name = "num_shortest_path" ->
                [p \in Graphs \X Nodes \X Nodes |->
                    Rat(Pick(NspVals, seed + PairCell(p[1], p[2], p[3])), 1)]
          [] name = "undir_jac" ->
                [p \in Graphs \X Nodes \X Nodes |->
                    Rat(Pick(JacNums, 3 * seed + PairCell(p[1], p[2], p[3])), ScoreDen)]
          [] name = "undir_aa" ->
                [p \in Graphs \X Nodes \X Nodes |->
                    Rat(Pick(AaNums, 2 * seed + PairCell(p[1], p[2], p[3])), ScoreDen)]
          [] name = "in_degree" ->
                [p \in Graphs \X Nodes |->
                    Rat(Pick(DegVals, 2 * seed + p[1] * NNode + p[2]), 1)]
          [] name = "out_degree" ->
                [p \in Graphs \X Nodes |->
                    Rat(Pick(DegVals, 3 * seed + 2 + p[1] * NNode + p[2]), 1)]]

Batches == {Batch(seed, optional) : seed \in Range(DataSeeds), optional \in FieldSets}

----------------------------------------------------------------------------
(* Graphormer.forward, statement by statement, on a frame of its locals.   *)
(* frame.attn_bias is the storage of the caller's data.attn_bias;          *)
(* frame.shares says whether graph_attn_bias is a view of that storage.    *)

HeadsOf(self) == Range(self.num_heads)
HiddenOf(self) == Range(self.hidden_dim)

Frame0 ==
    [status |-> "ok", reads |-> {}, lookups |-> {},
     attn_bias |-> <<>>, shares |-> FALSE, graph_attn_bias |-> <<>>,
     len_shortest_path |-> <<>>, in_degree |-> <<>>, out_degree |-> <<>>,
     emb |-> <<>>, spatial_pos_bias |-> <<>>,
     node_feature |-> <<>>, graph_node_feature |-> <<>>, output |-> <<>>]

\* data.<name>: AttributeError when the batch does not hold the field
GetField(f, d, name) ==
    LET g == [f EXCEPT !.reads = @ \cup {<<"data", name>>}]
    IN  IF name \in DOMAIN d THEN g ELSE [g EXCEPT !.status = "AttributeError"]

\* self.<name>(index): nn.Module.__getattr__ raises AttributeError for a
\* table that was never allocated; F.embedding raises IndexError for an
\* index outside the table
Embedding_forward(f, self, name, index) ==
    LET g == [f EXCEPT !.reads = @ \cup {<<"self", name>>}]
    IN  IF name \notin DOMAIN self.encoders
        THEN [g EXCEPT !.status = "AttributeError"]
        ELSE LET used == {index[p] : p \in DOMAIN index}
                 h == [g EXCEPT !.lookups = @ \cup {<<name, i>> : i \in used}]
             IN  IF \E i \in used : i \notin DOMAIN self.encoders[name]
                 THEN [h EXCEPT !.status = "IndexError"]
                 ELSE [h EXCEPT !.emb = [p \in DOMAIN index |->
                                            self.encoders[name][index[p]]]]

\* permute(0, 3, 1, 2) of an embedded (n_graph, n_node, n_node) index tensor
Permute0312(self, emb) ==
    [p \in Graphs \X HeadsOf(self) \X Nodes \X Nodes |-> emb[<<p[1], p[3], p[4]>>][p[2]]]

\* An in-place write to graph_attn_bias, seen through every view of its storage
SetItem(f, new) ==
    IF f.shares
    THEN [f EXCEPT !.graph_attn_bias = new,
                   !.attn_bias = [p \in DOMAIN f.attn_bias |-> new[<<p[1], 0, p[2], p[3]>>]]]
    ELSE [f EXCEPT !.graph_attn_bias = new]

\* x, edge_index = data.x, data.edge_index; attn_bias = data.attn_bias
Stmt203(self, d, f) ==
    LET a == GetField(f, d, "x")
        b == IF a.status = "ok" THEN GetField(a, d, "edge_index") ELSE a
        c == IF b.status = "ok" THEN GetField(b, d, "attn_bias") ELSE b
    IN  IF c.status = "ok" THEN [c EXCEPT !.attn_bias = d["attn_bias"]] ELSE c

\* len_shortest_path = torch.clamp(data.len_shortest_path, min=0, max=39).long()
Stmt205(self, d, f) ==
    IF f.status # "ok" THEN f ELSE
    LET g == GetField(f, d, "len_shortest_path")
    IN  IF g.status # "ok" THEN g ELSE
        [g EXCEPT !.len_shortest_path =
            [p \in DOMAIN d["len_shortest_path"] |->
                Long(Clamp(d["len_shortest_path"][p], 0, SpdMax))]]

\* in_degree = torch.clamp(data.in_degree, min=0, max=63).long()
Stmt206(self, d, f) ==
    IF f.status # "ok" THEN f ELSE
    LET g == GetField(f, d, "in_degree")
    IN  IF g.status # "ok" THEN g ELSE
        [g EXCEPT !.in_degree =
            [p \in DOMAIN d["in_degree"] |-> Long(Clamp(d["in_degree"][p], 0, DegMax))]]

\* out_degree = torch.clamp(data.out_degree, min=0, max=63).long()
Stmt207(self, d, f) ==
    IF f.status # "ok" THEN f ELSE
    LET g == GetField(f, d, "out_degree")
    IN  IF g.status # "ok" THEN g ELSE
        [g EXCEPT !.out_degree =
            [p \in DOMAIN d["out_degree"] |-> Long(Clamp(d["out_degree"][p], 0, DegMax))]]

\* A view in place of the copy: attn_bias.unsqueeze(1).expand(...)
Stmt213View(self, d, f) ==
    IF f.status # "ok" THEN f ELSE
    [f EXCEPT !.shares = TRUE,
              !.graph_attn_bias =
                  [p \in Graphs \X HeadsOf(self) \X Tokens \X Tokens |->
                      f.attn_bias[<<p[1], p[3], p[4]>>]]]

\* graph_attn_bias = attn_bias.clone().unsqueeze(1).repeat(1, num_heads, 1, 1)
Stmt213(self, d, f) ==
    IF f.status # "ok" THEN f ELSE
    [f EXCEPT !.shares = FALSE,
              !.graph_attn_bias =
                  [p \in Graphs \X HeadsOf(self) \X Tokens \X Tokens |->
                      f.attn_bias[<<p[1], p[3], p[4]>>]]]

\* spatial_pos_bias = self.len_shortest_path_encoder(len_shortest_path).permute(0, 3, 1, 2)
Stmt220(self, d, f) ==
    IF f.status # "ok" THEN f ELSE
    LET g == Embedding_forward(f, self, "len_shortest_path_encoder", f.len_shortest_path)
    IN  IF g.status # "ok" THEN g ELSE
        [g EXCEPT !.spatial_pos_bias = Permute0312(self, g.emb)]

\* if self.use_num_spd: clamp data.num_shortest_path to [0, 39], embed, add
Stmt221(self, d, f) ==
    IF f.status # "ok" \/ ~self.use_num_spd THEN f ELSE
    LET g == GetField(f, d, "num_shortest_path")
    IN  IF g.status # "ok" THEN g ELSE
        LET num_shortest_path ==
                [p \in DOMAIN d["num_shortest_path"] |->
                    Long(Clamp(d["num_shortest_path"][p], 0, SpdMax))]
            h == Embedding_forward(g, self, "num_shortest_path_encoder", num_shortest_path)
        IN  IF h.status # "ok" THEN h ELSE
            LET bias == Permute0312(self, h.emb)
            IN  [h EXCEPT !.spatial_pos_bias = [p \in DOMAIN @ |-> @[p] + bias[p]]]

\* The Jaccard channel looked up in the shortest-path-length table
Stmt224WrongTable(self, d, f) ==
    IF f.status # "ok" \/ ~self.use_cnb_jac THEN f ELSE
    LET g == GetField(f, d, "undir_jac")
    IN  IF g.status # "ok" THEN g ELSE
        LET undir_jac_enc ==
                [p \in DOMAIN d["undir_jac"] |->
                    Long(Clamp(Mul(d["undir_jac"][p], JacScale), 0, SpdMax))]
            h == Embedding_forward(g, self, "len_shortest_path_encoder", undir_jac_enc)
        IN  IF h.status # "ok" THEN h ELSE
            LET bias == Permute0312(self, h.emb)
            IN  [h EXCEPT !.spatial_pos_bias = [p \in DOMAIN @ |-> @[p] + bias[p]]]

\* if self.use_cnb_jac: clamp data.undir_jac * 30 to [0, 39], embed, add
Stmt224(self, d, f) ==
    IF f.status # "ok" \/ ~self.use_cnb_jac THEN f ELSE
    LET g == GetField(f, d, "undir_jac")
    IN  IF g.status # "ok" THEN g ELSE
        LET undir_jac_enc ==
                [p \in DOMAIN d["undir_jac"] |->
                    Long(Clamp(Mul(d["undir_jac"][p], JacScale), 0, SpdMax))]
            h == Embedding_forward(g, self, "undir_jac_encoder", undir_jac_enc)
        IN  IF h.status # "ok" THEN h ELSE
            LET bias == Permute0312(self, h.emb)
            IN  [h EXCEPT !.spatial_pos_bias = [p \in DOMAIN @ |-> @[p] + bias[p]]]

\* if self.use_cnb_aa: clamp data.undir_aa * 10 to [0, 39], embed, add
Stmt228(self, d, f) ==
    IF f.status # "ok" \/ ~self.use_cnb_aa THEN f ELSE
    LET g == GetField(f, d, "undir_aa")
    IN  IF g.status # "ok" THEN g ELSE
        LET undir_aa_enc ==
                [p \in DOMAIN d["undir_aa"] |->
                    Long(Clamp(Mul(d["undir_aa"][p], AaScale), 0, SpdMax))]
            h == Embedding_forward(g, self, "undir_aa_encoder", undir_aa_enc)
        IN  IF h.status # "ok" THEN h ELSE
            LET bias == Permute0312(self, h.emb)
            IN  [h EXCEPT !.spatial_pos_bias = [p \in DOMAIN @ |-> @[p] + bias[p]]]

\* graph_attn_bias[:, :, 1:, 1:] = graph_attn_bias[:, :, 1:, 1:] + spatial_pos_bias
Stmt232(self, d, f) ==
    IF f.status # "ok" THEN f ELSE
    SetItem(f, [p \in DOMAIN f.graph_attn_bias |->
                   IF p[3] >= 1 /\ p[4] >= 1
                   THEN f.graph_attn_bias[p]
                        + f.spatial_pos_bias[<<p[1], p[2], p[3] - 1, p[4] - 1>>]
                   ELSE f.graph_attn_bias[p]])

\* t = self.graph_token_virtual_distance.weight.view(1, self.num_heads, 1)
VirtualDistance(self, h) == self.graph_token_virtual_distance[0][h]

\* The column update written over every row: graph_attn_bias[:, :, :, 0]
Stmt238AllRows(self, d, f) ==
    IF f.status # "ok" THEN f ELSE
    SetItem(f, [p \in DOMAIN f.graph_attn_bias |->
                   IF p[4] = 0
                   THEN f.graph_attn_bias[p] + VirtualDistance(self, p[2])
                   ELSE f.graph_attn_bias[p]])

\* graph_attn_bias[:, :, 1:, 0] = graph_attn_bias[:, :, 1:, 0] + t
Stmt238(self, d, f) ==
    IF f.status # "ok" THEN f ELSE
    SetItem(f, [p \in DOMAIN f.graph_attn_bias |->
                   IF p[3] >= 1 /\ p[4] = 0
                   THEN f.graph_attn_bias[p] + VirtualDistance(self, p[2])
                   ELSE f.graph_attn_bias[p]])

\* graph_attn_bias[:, :, 0, :] = graph_attn_bias[:, :, 0, :] + t
Stmt239(self, d, f) ==
    IF f.status # "ok" THEN f ELSE
    SetItem(f, [p \in DOMAIN f.graph_attn_bias |->
                   IF p[3] = 0
                   THEN f.graph_attn_bias[p] + VirtualDistance(self, p[2])
                   ELSE f.graph_attn_bias[p]])

\* The second addition of the baseline left out
Stmt241Skipped(self, d, f) == f

\* graph_attn_bias = graph_attn_bias + attn_bias.unsqueeze(1)
Stmt241(self, d, f) ==
    IF f.status # "ok" THEN f ELSE
    [f EXCEPT !.shares = FALSE,
              !.graph_attn_bias =
                  [p \in DOMAIN @ |-> @[p] + f.attn_bias[<<p[1], p[3], p[4]>>]]]

RECURSIVE AtomDot(_, _, _, _, _, _)
\* sum over the first nf input features of weight[k][f] * x[g, n, f]
AtomDot(self, x, g, n, k, nf) ==
    IF nf = 0 THEN 0
    ELSE self.atom_encoder.weight[k][nf - 1] * x[<<g, n, nf - 1>>]
         + AtomDot(self, x, g, n, k, nf - 1)

\* node_feature = self.atom_encoder(x)
Stmt244(self, d, f) ==
    IF f.status # "ok" THEN f ELSE
    [f EXCEPT !.node_feature =
        [p \in Graphs \X Nodes \X HiddenOf(self) |->
            AtomDot(self, d["x"], p[1], p[2], p[3], NumNodeFeat)
            + self.atom_encoder.bias[p[3]]]]

\* if self.use_degree: add in_degree_encoder(in_degree) + out_degree_encoder(out_degree)
Stmt247(self, d, f) ==
    IF f.status # "ok" \/ ~self.use_degree THEN f ELSE
    LET g == Embedding_forward(f, self, "in_degree_encoder", f.in_degree)
    IN  IF g.status # "ok" THEN g ELSE
        LET h == Embedding_forward(g, self, "out_degree_encoder", f.out_degree)
        IN  IF h.status # "ok" THEN h ELSE
            [h EXCEPT !.node_feature =
                [p \in DOMAIN @ |->
                    @[p] + g.emb[<<p[1], p[2]>>][p[3]] + h.emb[<<p[1], p[2]>>][p[3]]]]

\* graph_node_feature = torch.cat([graph_token_feature, node_feature], dim=1)
Stmt251(self, d, f) ==
    IF f.status # "ok" THEN f ELSE
    [f EXCEPT !.graph_node_feature =
        [p \in Graphs \X Tokens \X HiddenOf(self) |->
            IF p[2] = 0 THEN self.graph_token[0][p[3]]
            ELSE f.node_feature[<<p[1], p[2] - 1, p[3]>>]]]

\* Dropout that ignores the module's training flag
DropoutAlways(training, p) == p > 0

\* nn.Dropout(p) masks only in training mode with p > 0
DropoutActive(training, p) == training /\ p > 0

\* Whether a forward call of self draws any dropout mask
DrawsMask(self) ==
    \/ DropoutActive(self.training, self.rates.intput_dropout_rate)
    \/ /\ DOMAIN self.layers # {}
       /\ \/ DropoutActive(self.training, self.rates.dropout_rate)
          \/ DropoutActive(self.training, self.rates.attention_dropout_rate)

\* The mask draws open to one forward call; 0 stands for no masking
MaskDraws(self) == IF DrawsMask(self) THEN {1, 2} ELSE {0}

\* output = final_ln(layers(input_dropout(graph_node_feature), graph_attn_bias)):
\* the encoder stack is a fixed function of its inputs, the layers'
\* weights and the masks drawn, so the result is kept as that term
Stmt257(self, d, f, rng) ==
    IF f.status # "ok" THEN f ELSE
    [f EXCEPT !.output = [x |-> f.graph_node_feature,
                          attn_bias |-> f.graph_attn_bias,
                          layers |-> self.layers,
                          mask |-> rng]]

\* Graphormer.forward(data)
Graphormer_forward(self, d, rng) ==
    LET f1 == Stmt207(self, d, Stmt206(self, d, Stmt205(self, d, Stmt203(self, d, Frame0))))
        f2 == Stmt220(self, d, Stmt213(self, d, f1))
        f3 == Stmt228(self, d, Stmt224(self, d, Stmt221(self, d, f2)))
        f4 == Stmt239(self, d, Stmt238(self, d, Stmt232(self, d, f3)))
        f5 == Stmt251(self, d, Stmt247(self, d, Stmt244(self, d, Stmt241(self, d, f4))))
    IN  Stmt257(self, d, f5, rng)

----------------------------------------------------------------------------
(* Graphormer.reset_parameters.                                            *)

\* <encoder>.reset_parameters() for one table, in source order
ResetEncoder(r, name, draw) ==
    IF r.status # "ok" THEN r
    ELSE IF name \notin DOMAIN r.self.encoders
    THEN [r EXCEPT !.status = "AttributeError", !.touched = @ \cup {name}]
    ELSE [r EXCEPT !.touched = @ \cup {name},
                   !.self.encoders[name] =
                       NewEncoder(name, r.self.num_heads, r.self.hidden_dim, draw)]

\* Graphormer.reset_parameters()
Graphormer_reset_parameters(self, draw) ==
    LET r0 == [status |-> "ok", touched |-> {},
               self |-> [self EXCEPT
                   !.layers = [l \in DOMAIN @ |-> [@[l] EXCEPT !.seed = draw.seed]],
                   !.atom_encoder = Linear(NumNodeFeat, self.hidden_dim, 7, draw.seed)]]
        r1 == ResetEncoder(r0, "len_shortest_path_encoder", draw)
        r2 == IF self.use_num_spd THEN ResetEncoder(r1, "num_shortest_path_encoder", draw) ELSE r1
        r3 == IF self.use_cnb_jac THEN ResetEncoder(r2, "undir_jac_encoder", draw) ELSE r2
        r4 == IF self.use_cnb_aa THEN ResetEncoder(r3, "undir_aa_encoder", draw) ELSE r3
        r5 == ResetEncoder(r4, "in_degree_encoder", draw)
    IN  ResetEncoder(r5, "out_degree_encoder", draw)

----------------------------------------------------------------------------
(* MultiHeadAttention.forward on tensor shapes.                            *)

RECURSIVE Numel(_)
Numel(shape) == IF shape = <<>> THEN 1 ELSE Head(shape) * Numel(Tail(shape))

\* nn.Linear on a shape: the last dimension must be in_features
LinearShape(m, name, nin, nout) ==
    IF m.status # "ok" THEN m
    ELSE IF m[name][Len(m[name])] # nin THEN [m EXCEPT !.status = "RuntimeError"]
    ELSE [m EXCEPT ![name][Len(m[name])] = nout]

\* Tensor.view(...) with one -1 among the sizes
ViewShape(m, name, sizes) ==
    IF m.status # "ok" THEN m
    ELSE LET known == Numel([i \in 1 .. Len(sizes) |-> IF sizes[i] = -1 THEN 1 ELSE sizes[i]])
         IN  IF known = 0 \/ Numel(m[name]) % known # 0
             THEN [m EXCEPT !.status = "RuntimeError"]
             ELSE [m EXCEPT ![name] = [i \in 1 .. Len(sizes) |->
                                          IF sizes[i] = -1 THEN Numel(m[name]) \div known
                                          ELSE sizes[i]]]

\* Tensor.transpose(i, j), dimensions counted from 0
TransposeShape(m, name, i, j) ==
    IF m.status # "ok" THEN m
    ELSE [m EXCEPT ![name] = [n \in 1 .. Len(@) |->
                                 IF n = i + 1 THEN @[j + 1]
                                 ELSE IF n = j + 1 THEN @[i + 1] ELSE @[n]]]

\* x = torch.matmul(a, b) on 4-d operands with equal leading dimensions
MatmulShape(m, a, b) ==
    IF m.status # "ok" THEN m
    ELSE IF a[1] # b[1] \/ a[2] # b[2] \/ a[4] # b[3]
    THEN [m EXCEPT !.status = "RuntimeError"]
    ELSE [m EXCEPT !.x = <<a[1], a[2], a[3], b[4]>>]

\* x = x + attn_bias: each dimension equal or broadcast from 1
AddBiasShape(m, bias) ==
    IF m.status # "ok" \/ bias = <<>> THEN m
    ELSE IF \E n \in 1 .. 4 : bias[n] # m.x[n] /\ bias[n] # 1 /\ m.x[n] # 1
    THEN [m EXCEPT !.status = "RuntimeError"]
    ELSE [m EXCEPT !.x = [n \in 1 .. 4 |-> IF m.x[n] = 1 THEN bias[n] ELSE m.x[n]]]

\* The heads merged with view(batch_size, -1, d_v)
MergeHeadsNoHeads(self, batch_size, m) ==
    ViewShape(TransposeShape(m, "x", 1, 2), "x", <<batch_size, -1, self.att_size>>)

\* x = x.transpose(1, 2).contiguous().view(batch_size, -1, self.num_heads * d_v)
MergeHeads(self, batch_size, m) ==
    ViewShape(TransposeShape(m, "x", 1, 2), "x",
              <<batch_size, -1, self.num_heads * self.att_size>>)

\* assert x.size() == orig_q_size
AssertSize(m) ==
    IF m.status # "ok" THEN m
    ELSE IF m.x # m.orig_q_size THEN [m EXCEPT !.status = "AssertionError"]
    ELSE m

\* MultiHeadAttention.forward(q, k, v, attn_bias); attn_bias = <<>> is None
MultiHeadAttention_forward(self, q, k, v, attn_bias) ==
    LET d_k == self.att_size
        batch_size == q[1]
        m0 == [status |-> "ok", orig_q_size |-> q, q |-> q, k |-> k, v |-> v, x |-> <<>>]
        sizes == <<batch_size, -1, self.num_heads, d_k>>
        m1 == ViewShape(LinearShape(m0, "q", self.in_features, self.qkv_features), "q", sizes)
        m2 == ViewShape(LinearShape(m1, "k", self.in_features, self.qkv_features), "k", sizes)
        m3 == ViewShape(LinearShape(m2, "v", self.in_features, self.qkv_features), "v", sizes)
        m4 == TransposeShape(m3, "q", 1, 2)
        m5 == TransposeShape(m4, "v", 1, 2)
        m6 == TransposeShape(TransposeShape(m5, "k", 1, 2), "k", 2, 3)
        m7 == AddBiasShape(MatmulShape(m6, m6.q, m6.k), attn_bias)
        m8 == MatmulShape(m7, m7.x, m7.v)
        m9 == MergeHeads(self, batch_size, m8)
        m10 == LinearShape(m9, "x", self.out_in_features, self.out_features)
    IN  AssertSize(m10)

----------------------------------------------------------------------------
(* State and operations.                                                   *)
(*   model  the Graphormer instance                                        *)
(*   data   the caller's batch object, as the last forward call left it    *)
(*   ret    what the last operation did and returned                       *)
(*   saved  an earlier forward call kept for comparison                    *)
(*   mha    a MultiHeadAttention module and its last forward call          *)

NoBatch == <<>>
NoCall == [status |-> "none"]
NoMha == [status |-> "unconstructed"]

FullBatches == {Batch(seed, OptionalFields) : seed \in Range(DataSeeds)}

\* model.forward(d): the caller passes a fresh batch or the one it holds
ForwardOn(batches) ==
    /\ model.status = "constructed"
    /\ \E d \in batches \cup (IF data = NoBatch THEN {} ELSE {data}) :
       \E rng \in MaskDraws(model) :
          LET f == Graphormer_forward(model, d, rng)
          IN  /\ ret' = [op |-> "forward", status |-> f.status, reads |-> f.reads,
                         lookups |-> f.lookups, graph_attn_bias |-> f.graph_attn_bias,
                         output |-> f.output, arg |-> d]
              /\ data' = [d EXCEPT !["attn_bias"] = f.attn_bias]
    /\ UNCHANGED <<model, saved, mha>>

Forward == ForwardOn(Batches)

ForwardFull == ForwardOn(FullBatches)

\* model.reset_parameters()
ResetWith(draws) ==
    /\ model.status = "constructed"
    /\ \E draw \in draws :
          LET r == Graphormer_reset_parameters(model, draw)
          IN  /\ model' = r.self
              /\ ret' = [op |-> "reset_parameters", status |-> r.status,
                         touched |-> r.touched]
    /\ UNCHANGED <<data, saved, mha>>

ResetParameters == ResetWith(ParamDraws)

ResetPlain == ResetWith(PlainDraws)

\* model.train(mode) / model.eval(): nn.Module sets training on every submodule
Train ==
    /\ model.status = "constructed"
    /\ \E mode \in BOOLEAN :
          /\ mode # model.training
          /\ model' = [model EXCEPT !.training = mode]
    /\ ret' = [op |-> "train", status |-> "ok"]
    /\ UNCHANGED <<data, saved, mha>>

\* The caller keeps the last forward call's arguments and result
Remember ==
    /\ ret.op = "forward"
    /\ ret.status = "ok"
    /\ saved' = [status |-> "ok", self |-> model, arg |-> ret.arg,
                 output |-> ret.output]
    /\ ret' = [op |-> "remember", status |-> "ok"]
    /\ UNCHANGED <<model, data, mha>>

\* Graphormer(n_layers, num_node_feat, num_heads, hidden_dim, ffn_dim, ...)
Construct ==
    /\ model = NoModel
    /\ \E n_layers \in 0 .. MaxLayers, num_heads \in 1 .. MaxHeads,
          hidden_dim \in 1 .. MaxHiddenCtor, flags \in Flags, draw \in ParamDraws :
          model' = Graphormer_init(n_layers, num_heads, hidden_dim, flags, NoRates, draw)
    /\ ret' = [op |-> "__init__", status |-> model'.status]
    /\ UNCHANGED <<data, saved, mha>>

\* MultiHeadAttention(hidden_size, attention_dropout_rate, num_heads)
MhaInit ==
    /\ mha = NoMha
    /\ \E hidden_size \in 1 .. MaxHiddenCtor, num_heads \in 1 .. MaxHeads :
          mha' = [status |-> "module",
                  self |-> MultiHeadAttention_init(hidden_size, num_heads),
                  call |-> NoCall]
    /\ UNCHANGED <<model, data, ret, saved>>

\* self_attention(q, k, v, attn_bias) on tensors of the module's hidden size
MhaForward ==
    /\ mha.status = "module"
    /\ mha.self.status = "constructed"
    /\ \E batch \in 1 .. MaxBatch, q_len \in 1 .. MaxSeq, k_len \in 1 .. MaxSeq,
          biased \in BOOLEAN :
          LET q == <<batch, q_len, mha.self.in_features>>
              k == <<batch, k_len, mha.self.in_features>>
              attn_bias == IF biased THEN <<batch, mha.self.num_heads, q_len, k_len>>
                           ELSE <<>>
              m == MultiHeadAttention_forward(mha.self, q, k, k, attn_bias)
          IN  mha' = [mha EXCEPT !.call = [status |-> m.status, q |-> q, k |-> k, v |-> k,
                                           attn_bias |-> attn_bias, x |-> m.x]]
    /\ UNCHANGED <<model, data, ret, saved>>

\* The models of the main specification: constructed, dropout rates 0
MainModels ==
    {Graphormer_init(MaxLayers, MaxHeads, MaxHeads * AttSize, flags, NoRates, draw) :
        flags \in Flags, draw \in ParamDraws}

AllOn == [use_num_spd |-> TRUE, use_cnb_jac |-> TRUE, use_cnb_aa |-> TRUE,
          use_degree |-> TRUE]

AllOff == [use_num_spd |-> FALSE, use_cnb_jac |-> FALSE, use_cnb_aa |-> FALSE,
           use_degree |-> FALSE]

AllRates == [dropout_rate |-> 1, intput_dropout_rate |-> 1, attention_dropout_rate |-> 1]

\* The models of the determinism specification
DetModels ==
    {Graphormer_init(MaxLayers, MaxHeads, MaxHeads * AttSize, flags, rates, draw) :
        flags \in {AllOn, AllOff}, rates \in {NoRates, AllRates}, draw \in PlainDraws}

Init ==
    /\ model \in MainModels
    /\ data = NoBatch
    /\ ret = [op |-> "__init__", status |-> "constructed"]
    /\ saved = NoCall
    /\ mha = NoMha

Next == Forward \/ ResetParameters

Spec == Init /\ [][Next]_vars

DetInit ==
    /\ model \in DetModels
    /\ data = NoBatch
    /\ ret = [op |-> "__init__", status |-> "constructed"]
    /\ saved = NoCall
    /\ mha = NoMha

DetNext == ForwardFull \/ ResetPlain \/ Train \/ Remember

SpecDet == DetInit /\ [][DetNext]_vars

CtorInit ==
    /\ model = NoModel
    /\ data = NoBatch
    /\ ret = [op |-> "none", status |-> "none"]
    /\ saved = NoCall
    /\ mha = NoMha

CtorNext == Construct

SpecCtor == CtorInit /\ [][CtorNext]_vars

MhaNext == MhaInit \/ MhaForward

SpecMHA == CtorInit /\ [][MhaNext]_vars

----------------------------------------------------------------------------
(* Properties.  After ret.op = "forward" no operation has touched the      *)
(* model, so `model` is the instance the call ran on and ret.arg the batch *)
(* as it was passed.                                                       *)

ForwardDone == ret.op = "forward" /\ ret.status = "ok"

\* The toggle that governs an optional input field or embedding table
Toggle(self, name) ==
    CASE name \in {"num_shortest_path", "num_shortest_path_encoder"} -> self.use_num_spd
      [] name \in {"undir_jac", "undir_jac_encoder"} -> self.use_cnb_jac
      [] name \in {"undir_aa", "undir_aa_encoder"} -> self.use_cnb_aa
      [] name \in {"in_degree", "out_degree", "in_degree_encoder", "out_degree_encoder"} ->
            self.use_degree
      [] OTHER -> TRUE

\* The bucket a raw value is meant to land in: scale, clamp to 0..hi, truncate
Bucket(x, scale, hi) ==
    IF x.n * scale > hi * x.d THEN hi
    ELSE IF x.n * scale < 0 THEN 0
    ELSE (x.n * scale) \div x.d

\* The input field, scale and upper bound of each embedding table
FieldOf(name) ==
    CASE name = "len_shortest_path_encoder" -> "len_shortest_path"
      [] name = "num_shortest_path_encoder" -> "num_shortest_path"
      [] name = "undir_jac_encoder" -> "undir_jac"
      [] name = "undir_aa_encoder" -> "undir_aa"
      [] name = "in_degree_encoder" -> "in_degree"
      [] name = "out_degree_encoder" -> "out_degree"

ScaleOf(name) ==
    CASE name = "undir_jac_encoder" -> 30
      [] name = "undir_aa_encoder" -> 10
      [] OTHER -> 1

UpperOf(name) ==
    IF name \in {"in_degree_encoder", "out_degree_encoder"} THEN 63 ELSE 39

BiasEncoders == {"len_shortest_path_encoder"} \cup OptionalEncoders

\* The table entry of one enabled bias channel for head h at node pair (i, j)
ChannelTerm(self, d, name, g, h, i, j) ==
    IF name \in DOMAIN self.encoders
    THEN self.encoders[name][Bucket(d[FieldOf(name)][<<g, i, j>>],
                                    ScaleOf(name), UpperOf(name))][h]
    ELSE 0

ChannelSum(self, d, g, h, i, j) ==
    ChannelTerm(self, d, "len_shortest_path_encoder", g, h, i, j)
    + ChannelTerm(self, d, "num_shortest_path_encoder", g, h, i, j)
    + ChannelTerm(self, d, "undir_jac_encoder", g, h, i, j)
    + ChannelTerm(self, d, "undir_aa_encoder", g, h, i, j)

\* C1: forward reads an optional channel's input field and table only if
\* the channel's toggle is on, and so completes on any batch that holds
\* the fields of the enabled channels.
C1_OnlyEnabledChannelsRead ==
    ret.op = "forward" =>
        /\ \A r \in ret.reads : Toggle(model, r[2])
        /\ (\A name \in OptionalFields : Toggle(model, name) => name \in DOMAIN ret.arg)
              => ret.status = "ok"

\* C2: no constructed model has a hidden_dim that is not a multiple of
\* num_heads: construction with such a pair fails.
C2_ConstructionRejectsIndivisible ==
    model.status = "constructed" => model.hidden_dim % model.num_heads = 0

\* C3: at every pair of real-node positions the bias is twice the baseline
\* plus one table entry per enabled channel at the clamped bucket.
C3_NodeBlockBias ==
    ForwardDone =>
        \A g \in Graphs, h \in HeadsOf(model), i \in 1 .. NNode, j \in 1 .. NNode :
            ret.graph_attn_bias[<<g, h, i, j>>]
                = 2 * ret.arg["attn_bias"][<<g, i, j>>]
                  + ChannelSum(model, ret.arg, g, h, i - 1, j - 1)

C3_Witness ==
    /\ ForwardDone
    /\ model.use_num_spd /\ model.use_cnb_jac /\ model.use_cnb_aa
    /\ \E g \in Graphs, h \in HeadsOf(model), i \in 1 .. NNode, j \in 1 .. NNode :
          /\ ret.arg["attn_bias"][<<g, i, j>>] # 0
          /\ ChannelTerm(model, ret.arg, "len_shortest_path_encoder", g, h, i - 1, j - 1) # 0
          /\ ChannelTerm(model, ret.arg, "undir_jac_encoder", g, h, i - 1, j - 1) # 0

\* C4: every entry of the graph-token row and column is twice the baseline
\* plus the head's virtual distance, once, with no structural contribution.
C4_TokenRowColumn ==
    ForwardDone =>
        \A g \in Graphs, h \in HeadsOf(model), i \in Tokens, j \in Tokens :
            (i = 0 \/ j = 0) =>
                ret.graph_attn_bias[<<g, h, i, j>>]
                    = 2 * ret.arg["attn_bias"][<<g, i, j>>]
                      + model.graph_token_virtual_distance[0][h]

C4_Witness ==
    /\ ForwardDone
    /\ model.use_num_spd /\ model.use_cnb_jac /\ model.use_cnb_aa
    /\ \E g \in Graphs, h \in HeadsOf(model) :
          /\ model.graph_token_virtual_distance[0][h] # 0
          /\ ret.arg["attn_bias"][<<g, 0, 0>>] # 0
          /\ ret.graph_attn_bias[<<g, h, 0, 0>>] # 0

\* C5: every index looked up lies inside its table and is the clamped
\* bucket of a raw value: in-range values unchanged, values above at the
\* upper bound, values below at 0; clamping an index again changes nothing.
C5_LookupsInRange ==
    ret.op = "forward" =>
        /\ ret.status # "IndexError"
        /\ \A l \in ret.lookups :
              /\ l[2] \in 0 .. UpperOf(l[1])
              /\ l[2] \in DOMAIN model.encoders[l[1]]
              /\ Long(Clamp(Rat(l[2], 1), 0, UpperOf(l[1]))) = l[2]
        /\ \A name \in {l[1] : l \in ret.lookups} :
              {l[2] : l \in {k \in ret.lookups : k[1] = name}}
                  = {Bucket(ret.arg[FieldOf(name)][p], ScaleOf(name), UpperOf(name)) :
                        p \in DOMAIN ret.arg[FieldOf(name)]}

C5_Witness ==
    /\ ForwardDone
    /\ {l[1] : l \in ret.lookups} = DOMAIN model.encoders
    /\ Cardinality(DOMAIN model.encoders) = 6
    /\ \A name \in BiasEncoders \cup {"in_degree_encoder"} :
          /\ <<name, 0>> \in ret.lookups
          /\ <<name, UpperOf(name)>> \in ret.lookups
          /\ \E p \in DOMAIN ret.arg[FieldOf(name)] : ret.arg[FieldOf(name)][p].n < 0
          /\ \E p \in DOMAIN ret.arg[FieldOf(name)] :
                ret.arg[FieldOf(name)][p].n * ScaleOf(name)
                    > UpperOf(name) * ret.arg[FieldOf(name)][p].d
    /\ \E p \in DOMAIN ret.arg["undir_jac"] :
          /\ (ret.arg["undir_jac"][p].n * 30) % ret.arg["undir_jac"][p].d # 0
          /\ <<"undir_jac_encoder", Bucket(ret.arg["undir_jac"][p], 30, 39)>> \in ret.lookups
          /\ Bucket(ret.arg["undir_jac"][p], 30, 39) \notin {0, 39}
    /\ \E l \in ret.lookups : l[1] = "out_degree_encoder" /\ l[2] \notin {0, 63}

\* The same model with one optional bias channel not enabled
WithoutChannel(self, name) ==
    [self EXCEPT !.encoders = [n \in DOMAIN @ \ {name} |-> @[n]],
                 !.use_num_spd = @ /\ name # "num_shortest_path_encoder",
                 !.use_cnb_jac = @ /\ name # "undir_jac_encoder",
                 !.use_cnb_aa = @ /\ name # "undir_aa_encoder"]

\* The same model with one optional bias channel enabled on an all-zero table
WithZeroChannel(self, name) ==
    [self EXCEPT !.encoders = [n \in DOMAIN @ \cup {name} |->
                                  IF n = name
                                  THEN [b \in Range(40) |-> [h \in HeadsOf(self) |-> 0]]
                                  ELSE @[n]],
                 !.use_num_spd = @ \/ name = "num_shortest_path_encoder",
                 !.use_cnb_jac = @ \/ name = "undir_jac_encoder",
                 !.use_cnb_aa = @ \/ name = "undir_aa_encoder"]

IsZeroTable(table) == \A b \in DOMAIN table : \A h \in DOMAIN table[b] : table[b][h] = 0

\* C6: for each optional bias channel, the bias of a model with the channel
\* disabled equals the bias of the same model with the channel enabled on
\* an all-zero table.
C6_DisabledEqualsZeroTable ==
    ForwardDone =>
        \A name \in OptionalEncoders :
            /\ (name \in DOMAIN model.encoders /\ IsZeroTable(model.encoders[name]))
                  => LET other == Graphormer_forward(WithoutChannel(model, name), ret.arg, 0)
                     IN  other.status = "ok" /\ other.graph_attn_bias = ret.graph_attn_bias
            /\ (name \notin DOMAIN model.encoders /\ FieldOf(name) \in DOMAIN ret.arg)
                  => LET other == Graphormer_forward(WithZeroChannel(model, name), ret.arg, 0)
                     IN  other.status = "ok" /\ other.graph_attn_bias = ret.graph_attn_bias

C6_Witness ==
    /\ ForwardDone
    /\ "undir_jac_encoder" \in DOMAIN model.encoders
    /\ IsZeroTable(model.encoders["undir_jac_encoder"])
    /\ ~IsZeroTable(model.encoders["len_shortest_path_encoder"])
    /\ \E l \in ret.lookups : l[1] = "undir_jac_encoder" /\ l[2] \notin {0, 39}
    /\ "undir_aa_encoder" \notin DOMAIN model.encoders
    /\ "undir_aa" \in DOMAIN ret.arg

\* C7: when the head count divides hidden_dim and q, k, v share one shape,
\* MultiHeadAttention.forward passes its size assertion and returns a
\* tensor of the query's shape.
C7_OutputShapeIsQueryShape ==
    (/\ mha.status = "module"
     /\ mha.call.status # "none"
     /\ mha.self.in_features % mha.self.num_heads = 0
     /\ mha.call.k = mha.call.q)
        => mha.call.status = "ok" /\ mha.call.x = mha.call.q

C7_Witness ==
    /\ mha.status = "module"
    /\ mha.call.status = "ok"
    /\ mha.self.num_heads > 1
    /\ mha.self.att_size > 1
    /\ mha.self.in_features % mha.self.num_heads = 0
    /\ mha.call.k = mha.call.q
    /\ mha.call.q[1] > 1 /\ mha.call.q[2] > 1
    /\ mha.call.attn_bias # <<>>
    /\ mha.call.x = mha.call.q

\* Dropout is disabled in evaluation mode, or when every rate is 0
DropoutDisabled(self) == ~self.training \/ self.rates = NoRates

\* C8: with dropout disabled, a forward call returns what an earlier call
\* on the same parameters and the same inputs returned, whatever happened
\* in between.
C8_ForwardDeterministic ==
    (/\ ForwardDone
     /\ saved.status = "ok"
     /\ saved.self = model
     /\ saved.arg = ret.arg
     /\ DropoutDisabled(model))
        => ret.output = saved.output

C8_Witness ==
    /\ ForwardDone
    /\ saved.status = "ok"
    /\ saved.self = model
    /\ saved.arg = ret.arg
    /\ ~model.training
    /\ model.rates = AllRates
    /\ model.use_degree
    /\ ret.output = saved.output

\* C9: a forward call leaves the caller's batch, data.attn_bias included,
\* and every parameter of the model as they were.
C9_ForwardFrame ==
    [][ret'.op = "forward" => (model' = model /\ data' = ret'.arg)]_vars

C9_Witness ==
    /\ ForwardDone
    /\ data = ret.arg
    /\ \E g \in Graphs, h \in HeadsOf(model), i \in Tokens, j \in Tokens :
          /\ i >= 1 /\ j >= 1
          /\ ret.graph_attn_bias[<<g, h, i, j>>] # 2 * data["attn_bias"][<<g, i, j>>]
          /\ ret.graph_attn_bias[<<g, h, 0, j>>] # 2 * data["attn_bias"][<<g, 0, j>>]
          /\ ret.graph_attn_bias[<<g, h, i, 0>>] # 2 * data["attn_bias"][<<g, i, 0>>]

\* C10: reset_parameters completes in every toggle configuration and
\* touches only tables that were allocated at construction.
C10_ResetCompletes ==
    ret.op = "reset_parameters" =>
        /\ ret.status = "ok"
        /\ ret.touched \subseteq DOMAIN model.encoders

====
